---- MODULE Spec2Model ----
(***************************************************************************)
(* url-to-pdf-api: the HTTP layer (src/src/http/pdf-http.js), which looks  *)
(* for an already existing PDF behind the requested URL and redirects to   *)
(* it, and the render core (src/unnamed/part_000, lines 133-210), which    *)
(* drives a headless browser through one page load and a PDF export.       *)
(*                                                                         *)
(* Strings are sequences of one-character strings, so that the regular     *)
(* expressions, the URL parser and the URL serializer of the code are      *)
(* computed character by character.                                         *)
(***************************************************************************)
EXTENDS Integers, Sequences, FiniteSets, TLC

(***************************************************************************)
(* String helpers (String.prototype.startsWith / endsWith / toLowerCase).  *)
(***************************************************************************)
Digits == {"0", "1", "2", "3", "4", "5", "6", "7", "8", "9"}

StartsWith(s, p) == Len(s) >= Len(p) /\ SubSeq(s, 1, Len(p)) = p

EndsWith(s, p) == Len(s) >= Len(p) /\ SubSeq(s, Len(s) - Len(p) + 1, Len(s)) = p

Drop(s, n) == SubSeq(s, n + 1, Len(s))

LowerChar(c) ==
  CASE c = "A" -> "a"
    [] c = "D" -> "d"
    [] c = "F" -> "f"
    [] c = "O" -> "o"
    [] c = "P" -> "p"
    [] c = "R" -> "r"
    [] OTHER -> c

ToLowerCase(s) == [i \in 1..Len(s) |-> LowerChar(s[i])]

\* Index of the first character of s at or after position from that is in C;
\* Len(s) + 1 when there is none.
FirstIn(s, C, from) ==
  IF \E i \in from..Len(s) : s[i] \in C
    THEN CHOOSE i \in from..Len(s) :
           /\ s[i] \in C
           /\ \A j \in from..(i - 1) : s[j] \notin C
    ELSE Len(s) + 1

\* Length of the run of digits of s that starts at position from (\d+, greedy).
DigitRun(s, from) == FirstIn(s, {s[i] : i \in 1..Len(s)} \ Digits, from) - from

(***************************************************************************)
(* JavaScript values: a type tag and, for strings, the characters.         *)
(***************************************************************************)
Undefined == [t |-> "undefined", v |-> <<>>]

Null == [t |-> "null", v |-> <<>>]

JsString(s) == [t |-> "string", v |-> s]

\* _.isString
isString(x) == x.t = "string"

\* _.isNumber
isNumber(x) == x.t = "number"

\* JavaScript truthiness, as in if (opts.scrollPage).
Truthy(x) ==
  CASE x.t \in {"undefined", "null"} -> FALSE
    [] x.t = "boolean" -> x.v = <<"t">>
    [] x.t = "string" -> x.v # <<>>
    [] x.t = "number" -> x.v # <<"0">>
    [] OTHER -> TRUE

(***************************************************************************)
(* URLs.  new URL(raw) is the WHATWG parser for http(s) URLs: the scheme   *)
(* and the host are lower-cased, an empty path reads "/", the query and    *)
(* the fragment are kept as written.  Ports and credentials are not        *)
(* modelled: no URL of the model carries any.                              *)
(***************************************************************************)
\* new URL(raw): throws a TypeError (valid = FALSE) unless raw has a scheme
\* followed by "//" and a host.
URLParse(raw) ==
  LET colon == FirstIn(raw, {":"}, 1)
      hostStart == colon + 3
      hostEnd == FirstIn(raw, {"/", "?", "#"}, hostStart)
      pathEnd == FirstIn(raw, {"?", "#"}, hostEnd)
      searchEnd == FirstIn(raw, {"#"}, pathEnd)
      ok == /\ colon > 1
            /\ colon + 2 <= Len(raw)
            /\ SubSeq(raw, colon + 1, colon + 2) = <<"/", "/">>
            /\ \A i \in 1..(colon - 1) : raw[i] \notin {"/", "?", "#", "."}
            /\ hostEnd > hostStart
  IN IF ~ok
       THEN [valid |-> FALSE, protocol |-> <<>>, hostname |-> <<>>,
             pathname |-> <<>>, search |-> <<>>, hash |-> <<>>]
       ELSE [valid |-> TRUE,
             protocol |-> ToLowerCase(SubSeq(raw, 1, colon)),
             hostname |-> ToLowerCase(SubSeq(raw, hostStart, hostEnd - 1)),
             pathname |-> IF pathEnd = hostEnd THEN <<"/">>
                          ELSE SubSeq(raw, hostEnd, pathEnd - 1),
             search |-> SubSeq(raw, pathEnd, searchEnd - 1),
             hash |-> SubSeq(raw, searchEnd, Len(raw))]

\* URLToString with the query string lost: the href built from the origin, the
\* path and the fragment.
URLToString_noSearch(u) == u.protocol \o <<"/", "/">> \o u.hostname \o u.pathname \o u.hash

\* url.toString(): the serialized href.
URLToString(u) == u.protocol \o <<"/", "/">> \o u.hostname \o u.pathname \o u.search \o u.hash

sPdfExt == <<".", "p", "d", "f">>
sAbs == <<"/", "a", "b", "s", "/">>
sPdfSlash == <<"/", "p", "d", "f", "/">>
sForum == <<"/", "f", "o", "r", "u", "m">>
sPdf == <<"/", "p", "d", "f">>
sArxivHost == <<"a", "r", "x", "i", "v", ".", "o", "r", "g">>
sOpenReviewHost == <<"o", "p", "e", "n", "r", "e", "v", "i", "e", "w", ".", "n", "e", "t">>
sArxivPdfPrefix == <<"h", "t", "t", "p", "s", ":", "/", "/", "a", "r", "x", "i", "v", ".", "o", "r", "g", "/", "p", "d", "f", "/">>
spdf == <<"p", "d", "f">>

\* /\.pdf$/ (pdf-http.js line 14, part_000 line 13), applied with String.match.
isPDFPattern(s) == EndsWith(s, sPdfExt)

\* \d+\.\d+ at position from of s: the matched text, <<>> when there is no match.
\* Both \d+ are greedy and "." is no digit, so each run is the maximal one.
DigitsDotDigits(s, from) ==
  LET d1 == DigitRun(s, from)
      dot == from + d1
      d2 == DigitRun(s, dot + 1)
  IN IF d1 >= 1 /\ dot <= Len(s) /\ s[dot] = "." /\ d2 >= 1
       THEN SubSeq(s, from, dot + d2)
       ELSE <<>>

\* arxivIdPattern anchored at the end as well: /^\/(abs|pdf)\/(\d+\.\d+)$/.
arxivIdPattern_wholePath(pathname) ==
  IF /\ StartsWith(pathname, sAbs) \/ StartsWith(pathname, sPdfSlash)
     /\ DigitsDotDigits(pathname, Len(sAbs) + 1) = Drop(pathname, Len(sAbs))
    THEN DigitsDotDigits(pathname, Len(sAbs) + 1)
    ELSE <<>>

\* url.pathname.match(/^\/(abs|pdf)\/(\d+\.\d+)/): group 2, <<>> for null.
\* The pattern is anchored at the start only.
arxivIdPattern(pathname) ==
  IF StartsWith(pathname, sAbs) \/ StartsWith(pathname, sPdfSlash)
    THEN DigitsDotDigits(pathname, Len(sAbs) + 1)
    ELSE <<>>

\* url.match(/^https{0,1}:\/\/arxiv.org\/(abs|pdf)\/(\d+\.\d+)/) of the copy of
\* the resolver in part_000: group 2, <<>> for null.  The pattern runs on the
\* raw string and its "." in arxiv.org is unescaped: it matches any character.
arxivIdPattern_part000(url) ==
  LET http == <<"h", "t", "t", "p">>
      afterS == IF StartsWith(url, http \o <<"s">>) THEN 5 ELSE 4
      rest == Drop(url, afterS)
      arxiv == <<"a", "r", "x", "i", "v">>
      org == <<"o", "r", "g">>
      tail == Drop(rest, 3 + Len(arxiv) + 1 + Len(org))
  IN IF /\ StartsWith(url, http)
        /\ StartsWith(rest, <<":", "/", "/">> \o arxiv)
        /\ Len(rest) >= 3 + Len(arxiv) + 1 + Len(org)
        /\ SubSeq(rest, 3 + Len(arxiv) + 2, 3 + Len(arxiv) + 1 + Len(org)) = org
        /\ (StartsWith(tail, sAbs) \/ StartsWith(tail, sPdfSlash))
       THEN DigitsDotDigits(tail, Len(sAbs) + 1)
       ELSE <<>>

(***************************************************************************)
(* getExistingPdfUrl.  The function is asynchronous: it runs to its        *)
(* return, to a throw, or to the await of the HEAD request (kind "fetch"); *)
(* after the HEAD response it runs lines 40-45.                            *)
(***************************************************************************)
Return(x) == [kind |-> "return", value |-> x]

Throw == [kind |-> "throw", value |-> Null]

Fetch == [kind |-> "fetch", value |-> Null]

\* getExistingPdfUrl without the switch on url.hostname of line 20: the
\* known-site entries are tried on the path of any host.
getExistingPdfUrl_anyHost(raw_url) ==
  IF ~isString(raw_url) THEN Throw
  ELSE IF isPDFPattern(raw_url.v) THEN Return(raw_url)
  ELSE LET url == URLParse(raw_url.v)
       IN IF ~url.valid THEN Throw
          ELSE IF arxivIdPattern(url.pathname) # <<>>
            THEN Return(JsString(sArxivPdfPrefix \o arxivIdPattern(url.pathname)))
          ELSE IF url.pathname = sForum \/ url.pathname = sPdf
            THEN Return(JsString(URLToString([url EXCEPT !.pathname = sPdf])))
          ELSE Fetch

\* pdf-http.js lines 12-39.  raw_url.match throws a TypeError when raw_url is
\* no string (undefined, an array), and new URL throws one on an invalid URL.
getExistingPdfUrl(raw_url) ==
  IF ~isString(raw_url) THEN Throw
  ELSE IF isPDFPattern(raw_url.v) THEN Return(raw_url)
  ELSE LET url == URLParse(raw_url.v)
       IN IF ~url.valid THEN Throw
          ELSE IF url.hostname = sArxivHost /\ arxivIdPattern(url.pathname) # <<>>
            THEN Return(JsString(sArxivPdfPrefix \o arxivIdPattern(url.pathname)))
          ELSE IF url.hostname = sOpenReviewHost
                  /\ (url.pathname = sForum \/ url.pathname = sPdf)
            THEN Return(JsString(URLToString([url EXCEPT !.pathname = sPdf])))
          ELSE Fetch

\* pdf-http.js lines 40-45, with the value of headers.get('content-type'):
\* null when the response carries no such header, and null.toLowerCase throws.
getExistingPdfUrlAfterHead(raw_url, contentType) ==
  IF ~isString(contentType) THEN Throw
  ELSE IF EndsWith(ToLowerCase(contentType.v), spdf) THEN Return(raw_url)
  ELSE Return(Null)

\* The copy of the resolver in part_000, lines 11-26: no URL parsing, the
\* ArXiv pattern runs on the raw string, and there is no OpenReview entry.
getExistingPdfUrl_part000(url) ==
  IF ~isString(url) THEN Throw
  ELSE IF isPDFPattern(url.v) THEN Return(url)
  ELSE IF arxivIdPattern_part000(url.v) # <<>>
    THEN Return(JsString(sArxivPdfPrefix \o arxivIdPattern_part000(url.v)))
  ELSE Fetch

(***************************************************************************)
(* Options objects.  The nested object is kept flat, one key per leaf      *)
(* (viewport.width is opts.viewport.width); a leaf that is absent reads    *)
(* undefined.  The leaves are url, html, those render reads, and those     *)
(* with a default; the remaining leaves of getOptsFromQuery (scale,        *)
(* margins, ...) are passed to the browser untouched and left out.         *)
(***************************************************************************)
JsTrue == [t |-> "boolean", v |-> <<"t">>]

JsFalse == [t |-> "boolean", v |-> <<"f">>]

JsNumber(digits) == [t |-> "number", v |-> digits]

\* The keys getOptsFromQuery copies from the query (pdf-http.js lines 100-137).
QueryKeys ==
  {"url", "attachmentName", "scrollPage", "emulateScreenMedia", "ignoreHttpsErrors",
   "waitFor", "viewport.width", "viewport.height", "goto.waitUntil",
   "goto.networkIdleTimeout", "pdf.format", "pdf.printBackground"}

OptKeys == QueryKeys \cup {"html", "emulateMedia"}

\* An options object with the given leaves and every other leaf absent.
Obj(given) == [k \in OptKeys |-> IF k \in DOMAIN given THEN given[k] ELSE Undefined]

\* pdf-http.js lines 99-139.
getOptsFromQuery(query) == [k \in OptKeys |-> IF k \in QueryKeys THEN query[k] ELSE Undefined]

\* The defaults of render, part_000 lines 138-153.
RenderDefaults ==
  Obj([scrollPage |-> JsFalse, emulateMedia |-> JsFalse] @@
      ("viewport.width" :> JsNumber(<<"1", "6", "0", "0">>)) @@
      ("viewport.height" :> JsNumber(<<"1", "2", "0", "0">>)) @@
      ("goto.waitUntil" :> JsString(<<"n", "e", "t", "w", "o", "r", "k", "i", "d", "l", "e">>)) @@
      ("goto.networkIdleTimeout" :> JsNumber(<<"2", "0", "0", "0">>)) @@
      ("pdf.format" :> JsString(<<"A", "4">>)) @@
      ("pdf.printBackground" :> JsTrue))

\* _.merge(defaults, _opts): a source leaf that is undefined is skipped.
merge(defaults, _opts) ==
  [k \in OptKeys |-> IF _opts[k] = Undefined THEN defaults[k] ELSE _opts[k]]

(***************************************************************************)
(* Inputs.                                                                 *)
(***************************************************************************)
\* The longest run of digits in an ArXiv id of the model.
MaxDigits == 2

Ones(n) == [i \in 1..n |-> "1"]

ArxivIds == {Ones(a) \o <<".">> \o Ones(b) : a, b \in 1..MaxDigits}

UrlSchemes == {<<"h", "t", "t", "p", "s", ":", "/", "/">>, <<"h", "t", "t", "p", ":", "/", "/">>}

UrlHosts ==
  {sArxivHost, <<"A", "r", "x", "i", "v", ".", "o", "r", "g">>,
   <<"a", "r", "x", "i", "v", "x", "o", "r", "g">>,
   sOpenReviewHost, <<"O">> \o Tail(sOpenReviewHost), <<"x", ".", "i", "o">>}

UrlPaths ==
  {sAbs \o id : id \in ArxivIds} \cup
  {sPdfSlash \o id : id \in ArxivIds} \cup
  {sAbs \o id \o <<"v", "2">> : id \in ArxivIds} \cup
  {sAbs \o Ones(n) : n \in 1..MaxDigits} \cup
  {<<>>, sForum, sPdf, sForum \o <<"/", "x">>, <<"/", "a", ".", "p", "d", "f">>, <<"/", "a", ".", "P", "D", "F">>, <<"/", "a">>}

UrlSuffixes == {<<>>, <<"?", "i", "d", "=", "a">>, <<"?", "f", "=", ".", "p", "d", "f">>, <<"?", "i", "d", "=", "a", "#", "s">>}

\* Every URL of the model, and two strings that are no absolute URL.
AllUrls ==
  {s \o h \o p \o x : s \in UrlSchemes, h \in UrlHosts, p \in UrlPaths, x \in UrlSuffixes}
    \cup {<<"x", ".", "i", "o", "/", "a">>, <<"x", ".", "i", "o", "/", "a", ".", "p", "d", "f">>}

\* One URL for each way the resolver can go.
FewUrls ==
  {<<"h", "t", "t", "p", "s", ":", "/", "/", "x", ".", "i", "o", "/", "a">>, <<"h", "t", "t", "p", "s", ":", "/", "/", "x", ".", "i", "o", "/", "a", ".", "p", "d", "f">>, <<"h", "t", "t", "p", "s", ":", "/", "/", "a", "r", "x", "i", "v", ".", "o", "r", "g", "/", "a", "b", "s", "/", "1", ".", "1">>,
   <<"h", "t", "t", "p", "s", ":", "/", "/", "o", "p", "e", "n", "r", "e", "v", "i", "e", "w", ".", "n", "e", "t", "/", "f", "o", "r", "u", "m", "?", "i", "d", "=", "a">>}

JsArray == [t |-> "array", v |-> <<>>]

\* The render options a request carries: all absent, all given but the
\* scrolling (which AllOptions gives), or any mix.
FewOptions ==
  {[attachmentName |-> Undefined, scrollPage |-> Undefined, emulate |-> Undefined,
    waitFor |-> Undefined],
   [attachmentName |-> JsString(<<"f">>), scrollPage |-> Undefined, emulate |-> JsTrue,
    waitFor |-> JsNumber(<<"5">>)]}

AllOptions ==
  [attachmentName : {Undefined, JsString(<<"f">>)}, scrollPage : {Undefined, JsTrue},
   emulate : {Undefined, JsTrue}, waitFor : {Undefined, JsNumber(<<"5">>)}]

UrlsAndOptions ==
  (({JsString(u) : u \in AllUrls} \cup {Undefined, JsArray}) \X FewOptions) \cup
  (({JsString(u) : u \in FewUrls} \cup {Undefined}) \X AllOptions)

\* req.query: the parsed query string.
MkQuery(url, o) ==
  [k \in QueryKeys |->
     CASE k = "url" -> url
       [] k = "attachmentName" -> o.attachmentName
       [] k = "scrollPage" -> o.scrollPage
       [] k = "emulateScreenMedia" -> o.emulate
       [] k = "waitFor" -> o.waitFor
       [] OTHER -> Undefined]

\* The leaves a request can give that render has a default for, under the
\* names getOptsFromQuery gives them (lines 102-103, 108-118, 135).
DefaultedQueryKeys ==
  {"scrollPage", "emulateScreenMedia", "viewport.width", "viewport.height",
   "goto.waitUntil", "goto.networkIdleTimeout", "pdf.format", "pdf.printBackground"}

\* The values such a leaf is given: one that is falsy, and one that is not.
LeafValues(k) ==
  CASE k = "viewport.width" -> {JsNumber(<<"0">>), JsNumber(<<"8", "0", "0">>)}
    [] k = "viewport.height" -> {JsNumber(<<"0">>), JsNumber(<<"3", "0", "0">>)}
    [] k = "goto.waitUntil" -> {JsString(<<>>), JsString(<<"l", "o", "a", "d">>)}
    [] k = "goto.networkIdleTimeout" -> {JsNumber(<<"0">>), JsNumber(<<"5">>)}
    [] k = "pdf.format" -> {JsString(<<>>), JsString(<<"A", "3">>)}
    [] OTHER -> {JsFalse, JsTrue}

\* The leaves given: none, one, two, or all of them, falsy or not.
LeafChoices(keys) ==
  LET one == UNION {{k :> v : v \in LeafValues(k)} : k \in keys}
  IN {<<>>} \cup {a @@ b : a, b \in one} \cup
     {[k \in keys |-> CHOOSE v \in LeafValues(k) : Truthy(v) = t] : t \in BOOLEAN}

\* The URL of the requests that vary the leaves: one that is rendered.
LeafUrl == JsString(<<"h", "t", "t", "p", "s", ":", "/", "/", "x", ".", "i", "o", "/", "a">>)

\* The queries that vary the leaves with a default.
LeafQueries ==
  {[k \in QueryKeys |-> IF k = "url" THEN LeafUrl
                         ELSE IF k \in DOMAIN given THEN given[k] ELSE Undefined] :
     given \in LeafChoices(DefaultedQueryKeys)}

Queries == {MkQuery(uo[1], uo[2]) : uo \in UrlsAndOptions} \cup LeafQueries

Markup == JsString(<<"<", "p", ">">>)

\* req.body of an application/json request: an object that may carry url,
\* html and any option, emulateMedia and emulateScreenMedia included.
MkBody(url, html, o, emulateKey) ==
  [k \in OptKeys |->
     CASE k = "url" -> url
       [] k = "html" -> html
       [] k = "attachmentName" -> o.attachmentName
       [] k = "scrollPage" -> o.scrollPage
       [] k = emulateKey -> o.emulate
       [] k = "waitFor" -> o.waitFor
       [] OTHER -> Undefined]

\* The JSON bodies that vary the leaves with a default.
LeafBodies ==
  {Obj(("url" :> LeafUrl) @@ given) :
     given \in LeafChoices(DefaultedQueryKeys \cup {"emulateMedia"})}

JsonBodies ==
  {MkBody(uo[1], html, uo[2], e) :
     uo \in UrlsAndOptions, html \in {Undefined, Markup},
     e \in {"emulateMedia", "emulateScreenMedia"}} \cup LeafBodies

ContentTypeHeaders == {"application/json", "text/html", "text/plain"}

\* What headers.get('content-type') gives for the HEAD response: null when
\* the response has no such header.
HeadContentTypes ==
  {Null, JsString(<<"a", "p", "p", "l", "i", "c", "a", "t", "i", "o", "n", "/", "p", "d", "f">>), JsString(<<"A", "p", "p", "l", "i", "c", "a", "t", "i", "o", "n", "/", "P", "D", "F">>),
   JsString(<<"t", "e", "x", "t", "/", "h", "t", "m", "l">>), JsString(<<"a", "p", "p", "l", "i", "c", "a", "t", "i", "o", "n", "/", "p", "d", "f", ";", "a">>)}

\* The documents page.goto can load, as scrollPage sees them: the height of
\* the body, and how it grows while the page is scrolled (content loaded on
\* scroll): by grow pixels between two scroll steps, for the first growSteps
\* steps, or for ever.  With the default viewport the first ends the
\* scrolling at the first step, the second and third after a few, the
\* fourth too late for the 30 s timer, the fifth just in time, and the last
\* never.
Documents ==
  {[height |-> 1000, grow |-> 0, growSteps |-> 0, endless |-> FALSE],
   [height |-> 3000, grow |-> 0, growSteps |-> 0, endless |-> FALSE],
   [height |-> 3000, grow |-> 800, growSteps |-> 2, endless |-> FALSE],
   [height |-> 3000, grow |-> 800, growSteps |-> 148, endless |-> FALSE],
   [height |-> 3000, grow |-> 800, growSteps |-> 146, endless |-> FALSE],
   [height |-> 3000, grow |-> 800, growSteps |-> 0, endless |-> TRUE]}

\* The latest time, in ms after scrollPage began, at which a timer of the
\* page is still followed.
MaxClock == 31000

\* The bytes page.pdf can return.
PdfBytes == {[t |-> "buffer", v |-> <<"%", "P", "D", "F", "a">>], [t |-> "buffer", v |-> <<"%", "P", "D", "F", "b">>]}

(***************************************************************************)
(* State.  Each request is handled by one call of getRender or postRender; *)
(* the handlers share no variable, so the state is one record per request. *)
(***************************************************************************)
Reqs == {"r1", "r2"}

VARIABLES
  pc,             \* where the handler of the request stands
  req,            \* the request: method, content-type header, query, body
  opts,           \* the handler's opts
  existingPdfUrl, \* what getExistingPdfUrl returned
  resolverCalls,  \* the number of calls of getExistingPdfUrl
  head,           \* the HEAD requests issued, and how the request ended
  err,            \* the error the handler's promise is rejected with
  res,            \* the response: what was set and how often it was sent
  renderCalls,    \* the number of calls of pdfCore.render
  ropts,          \* render's opts, the defaults merged with its argument
  browser,        \* the session: launches, and calls of browser.close()
  calls,          \* the calls made on the page, in order, with their argument
  page,           \* the page as scrollPage's script sees and drives it
  data            \* the bytes page.pdf returned

httpVars == <<req, opts, resolverCalls, existingPdfUrl, head, res>>

renderVars == <<renderCalls, ropts, browser, calls, page, data>>

vars == <<pc, err, httpVars, renderVars>>

EmptyObj == [k \in OptKeys |-> Undefined]

NoRequest ==
  [method |-> "", contentType |-> "", query |-> [k \in QueryKeys |-> Undefined],
   json |-> EmptyObj, raw |-> Undefined]

NoError == [thrown |-> FALSE, status |-> 0, message |-> ""]

NoResponse ==
  [sent |-> 0, status |-> 0, location |-> Undefined, contentType |-> "",
   attachment |-> Undefined, body |-> Undefined, message |-> ""]

NoHead == [requests |-> 0, outcome |-> "none", contentType |-> Undefined]

\* The page before scrollPage runs in it: no timer, no promise.
NoPage ==
  [innerHeight |-> 0, doc |-> [height |-> 0, grow |-> 0, growSteps |-> 0, endless |-> FALSE],
   scrollHeight |-> 0, pageYOffset |-> 0, steps |-> 0, clock |-> 0, timers |-> {},
   promise |-> "none"]

Init ==
  /\ pc = [r \in Reqs |-> "idle"]
  /\ req = [r \in Reqs |-> NoRequest]
  /\ opts = [r \in Reqs |-> EmptyObj]
  /\ existingPdfUrl = [r \in Reqs |-> Undefined]
  /\ resolverCalls = [r \in Reqs |-> 0]
  /\ head = [r \in Reqs |-> NoHead]
  /\ err = [r \in Reqs |-> NoError]
  /\ res = [r \in Reqs |-> NoResponse]
  /\ renderCalls = [r \in Reqs |-> 0]
  /\ ropts = [r \in Reqs |-> EmptyObj]
  /\ browser = [r \in Reqs |-> [launched |-> 0, closeCalls |-> 0]]
  /\ calls = [r \in Reqs |-> <<>>]
  /\ page = [r \in Reqs |-> NoPage]
  /\ data = [r \in Reqs |-> Undefined]

(***************************************************************************)
(* The HTTP handlers, pdf-http.js.                                         *)
(***************************************************************************)
\* An error that carries no status: a TypeError, a rejected fetch, a failed
\* browser call.
PlainError(message) == [thrown |-> TRUE, status |-> 0, message |-> message]

\* ex.throwStatus(status, message) throws an error that carries the status.
throwStatus(status, message) == [thrown |-> TRUE, status |-> status, message |-> message]

\* The handler awaits getExistingPdfUrl(opts.url), which has run to out.
AwaitExistingPdfUrl(r, out) ==
  /\ existingPdfUrl' = [existingPdfUrl EXCEPT ![r] =
                          IF out.kind = "return" THEN out.value ELSE @]
  /\ resolverCalls' = [resolverCalls EXCEPT ![r] = @ + 1]
  /\ head' = [head EXCEPT ![r] =
                IF out.kind = "fetch"
                  THEN [@ EXCEPT !.requests = @ + 1, !.outcome = "pending"]
                  ELSE @]
  /\ err' = [err EXCEPT ![r] =
               IF out.kind = "throw" THEN PlainError("TypeError") ELSE @]
  /\ pc' = [pc EXCEPT ![r] =
              CASE out.kind = "return" -> "resolved"
                [] out.kind = "throw" -> "rejected"
                [] OTHER -> "fetch"]

\* getRender, lines 49-50, up to the first suspension of getExistingPdfUrl.
GetRender(r, query) ==
  /\ pc[r] = "idle"
  /\ req' = [req EXCEPT ![r] = [NoRequest EXCEPT !.method = "GET", !.query = query]]
  /\ opts' = [opts EXCEPT ![r] = getOptsFromQuery(query)]
  /\ AwaitExistingPdfUrl(r, getExistingPdfUrl(getOptsFromQuery(query)["url"]))
  /\ UNCHANGED <<res, renderVars>>

\* postRender, line 66.
isBodyJson(contentType) == contentType = "application/json"

\* postRenderValidation without its else branch: a url query parameter is let
\* through with an HTML body.
postRenderValidation_bodyOnly(contentType, query, json) ==
  IF isBodyJson(contentType) /\ ~(isString(json["url"]) \/ isString(json["html"]))
    THEN throwStatus(400, "Body must contain url or html")
    ELSE NoError

\* postRender, lines 67-74: the error thrown by the validation, NoError when
\* the request passes.
postRenderValidation(contentType, query, json) ==
  IF isBodyJson(contentType)
    THEN IF ~(isString(json["url"]) \/ isString(json["html"]))
           THEN throwStatus(400, "Body must contain url or html")
           ELSE NoError
    ELSE IF isString(query["url"])
           THEN throwStatus(400, "url query parameter is not allowed when body is HTML")
           ELSE NoError

\* postRender, lines 76-82.
postRenderOpts(contentType, query, json, raw) ==
  IF isBodyJson(contentType)
    THEN json
    ELSE [getOptsFromQuery(query) EXCEPT !["html"] = raw]

\* postRender, lines 66-84, up to the first suspension of getExistingPdfUrl.
PostRender(r, contentType, query, json, raw) ==
  /\ pc[r] = "idle"
  /\ req' = [req EXCEPT ![r] = [method |-> "POST", contentType |-> contentType,
                                query |-> query, json |-> json, raw |-> raw]]
  /\ LET invalid == postRenderValidation(contentType, query, json)
         o == postRenderOpts(contentType, query, json, raw)
     IN IF invalid.thrown
          THEN /\ err' = [err EXCEPT ![r] = invalid]
               /\ pc' = [pc EXCEPT ![r] = "rejected"]
               /\ UNCHANGED <<opts, resolverCalls, existingPdfUrl, head>>
          ELSE /\ opts' = [opts EXCEPT ![r] = o]
               /\ AwaitExistingPdfUrl(r, getExistingPdfUrl(o["url"]))
  /\ UNCHANGED <<res, renderVars>>

\* The HEAD request completes: getExistingPdfUrl, lines 40-45.
HeadResponse(r, contentType) ==
  /\ pc[r] = "fetch"
  /\ LET out == getExistingPdfUrlAfterHead(opts[r]["url"], contentType)
     IN /\ existingPdfUrl' = [existingPdfUrl EXCEPT ![r] =
                                IF out.kind = "return" THEN out.value ELSE @]
        /\ err' = [err EXCEPT ![r] =
                     IF out.kind = "throw" THEN PlainError("TypeError") ELSE @]
        /\ pc' = [pc EXCEPT ![r] =
                    IF out.kind = "return" THEN "resolved" ELSE "rejected"]
  /\ head' = [head EXCEPT ![r] = [@ EXCEPT !.outcome = "responded",
                                           !.contentType = contentType]]
  /\ UNCHANGED <<req, opts, resolverCalls, res, renderVars>>

\* HeadFailure with the failure caught and read as "not a PDF": the resolver
\* returns null.
HeadFailure_notAPdf(r) ==
  /\ pc[r] = "fetch"
  /\ existingPdfUrl' = [existingPdfUrl EXCEPT ![r] = Null]
  /\ pc' = [pc EXCEPT ![r] = "resolved"]
  /\ head' = [head EXCEPT ![r] = [@ EXCEPT !.outcome = "failed"]]
  /\ UNCHANGED <<req, opts, resolverCalls, err, res, renderVars>>

\* The HEAD request fails (DNS, connection, timeout): fetch rejects, and the
\* await of line 39 throws.
HeadFailure(r) ==
  /\ pc[r] = "fetch"
  /\ err' = [err EXCEPT ![r] = PlainError("FetchError")]
  /\ pc' = [pc EXCEPT ![r] = "rejected"]
  /\ head' = [head EXCEPT ![r] = [@ EXCEPT !.outcome = "failed"]]
  /\ UNCHANGED <<req, opts, resolverCalls, existingPdfUrl, res, renderVars>>

\* Redirect without the return of line 52: the handler goes on to call
\* pdfCore.render after it has sent the redirect.
Redirect_noReturn(r) ==
  /\ pc[r] = "resolved"
  /\ existingPdfUrl[r] # Null
  /\ res' = [res EXCEPT ![r] = [@ EXCEPT !.sent = @ + 1, !.status = 302,
                                         !.location = existingPdfUrl[r]]]
  /\ renderCalls' = [renderCalls EXCEPT ![r] = @ + 1]
  /\ ropts' = [ropts EXCEPT ![r] = merge(RenderDefaults, opts[r])]
  /\ pc' = [pc EXCEPT ![r] = "launch"]
  /\ UNCHANGED <<req, opts, resolverCalls, existingPdfUrl, head, err, browser, calls, page, data>>

\* getRender lines 51-53, postRender lines 85-87.
Redirect(r) ==
  /\ pc[r] = "resolved"
  /\ existingPdfUrl[r] # Null
  /\ res' = [res EXCEPT ![r] = [@ EXCEPT !.sent = @ + 1, !.status = 302,
                                         !.location = existingPdfUrl[r]]]
  /\ pc' = [pc EXCEPT ![r] = "done"]
  /\ UNCHANGED <<req, opts, resolverCalls, existingPdfUrl, head, err, renderVars>>

(***************************************************************************)
(* render, part_000 lines 137-176.  Every await is a step of its own: the  *)
(* call is made, and it resolves or rejects.  A rejected await throws out  *)
(* of render, which has no try/catch/finally.                              *)
(***************************************************************************)
Call(op, arg) == [op |-> op, arg |-> arg]

\* An awaited call on the page or the browser at position here: it is made,
\* and then either resolves, and render goes on at next, or rejects.
AwaitCall(r, here, call, next) ==
  /\ pc[r] = here
  /\ calls' = [calls EXCEPT ![r] = Append(@, call)]
  /\ \E ok \in BOOLEAN :
       IF ok
         THEN /\ pc' = [pc EXCEPT ![r] = next]
              /\ err' = err
         ELSE /\ pc' = [pc EXCEPT ![r] = "rejected"]
              /\ err' = [err EXCEPT ![r] = PlainError(call.op)]

\* AfterEmulateMedia without the waitFor of lines 162-164.
AfterEmulateMedia_noWaitFor(o) == "goto"

\* Lines 162-166: after the media emulation, waitFor or goto.
AfterEmulateMedia(o) ==
  IF isNumber(o["waitFor"]) \/ isString(o["waitFor"]) THEN "waitFor" ELSE "goto"

\* Lines 158-160: after setViewport.
AfterSetViewport(o) ==
  IF Truthy(o["emulateMedia"]) THEN "emulateMedia" ELSE AfterEmulateMedia(o)

\* Lines 168-172: after goto.
AfterGoto(o) == IF Truthy(o["scrollPage"]) THEN "scrollPage" ELSE "pdf"

\* Render without the test of existingPdfUrl: render is called whatever the
\* resolver returned.
Render_unguarded(r) ==
  /\ pc[r] = "resolved"
  /\ renderCalls' = [renderCalls EXCEPT ![r] = @ + 1]
  /\ ropts' = [ropts EXCEPT ![r] = merge(RenderDefaults, opts[r])]
  /\ pc' = [pc EXCEPT ![r] = "launch"]
  /\ UNCHANGED <<err, httpVars, browser, calls, data, page>>

\* getRender line 55, postRender line 89: pdfCore.render(opts) is called, and
\* runs lines 138-154.
Render(r) ==
  /\ pc[r] = "resolved"
  /\ existingPdfUrl[r] = Null
  /\ renderCalls' = [renderCalls EXCEPT ![r] = @ + 1]
  /\ ropts' = [ropts EXCEPT ![r] = merge(RenderDefaults, opts[r])]
  /\ pc' = [pc EXCEPT ![r] = "launch"]
  /\ UNCHANGED <<err, httpVars, browser, calls, data, page>>

\* Line 155: puppeteer.launch.
Launch(r) ==
  /\ pc[r] = "launch"
  /\ \E ok \in BOOLEAN :
       IF ok
         THEN /\ browser' = [browser EXCEPT ![r] = [@ EXCEPT !.launched = @ + 1]]
              /\ pc' = [pc EXCEPT ![r] = "newPage"]
              /\ err' = err
         ELSE /\ browser' = browser
              /\ pc' = [pc EXCEPT ![r] = "rejected"]
              /\ err' = [err EXCEPT ![r] = PlainError("launch")]
  /\ UNCHANGED <<httpVars, renderCalls, ropts, calls, data, page>>

\* Line 156.
NewPage(r) ==
  /\ AwaitCall(r, "newPage", Call("newPage", Undefined), "setViewport")
  /\ UNCHANGED <<httpVars, renderCalls, ropts, browser, data, page>>

\* Line 157.
SetViewport(r) ==
  /\ AwaitCall(r, "setViewport", Call("setViewport", ropts[r]["viewport.width"]),
               AfterSetViewport(ropts[r]))
  /\ UNCHANGED <<httpVars, renderCalls, ropts, browser, data, page>>

\* Line 159.
EmulateMedia(r) ==
  /\ AwaitCall(r, "emulateMedia", Call("emulateMedia", JsString(<<"s", "c", "r", "e", "e", "n">>)),
               AfterEmulateMedia(ropts[r]))
  /\ UNCHANGED <<httpVars, renderCalls, ropts, browser, data, page>>

\* Line 163.
WaitFor(r) ==
  /\ AwaitCall(r, "waitFor", Call("waitFor", ropts[r]["waitFor"]), "goto")
  /\ UNCHANGED <<httpVars, renderCalls, ropts, browser, data, page>>

\* Line 166: the page is always loaded with page.goto(opts.url); opts.html is
\* not read anywhere in render.
Goto(r) ==
  /\ AwaitCall(r, "goto", Call("goto", ropts[r]["url"]), AfterGoto(ropts[r]))
  /\ UNCHANGED <<httpVars, renderCalls, ropts, browser, data, page>>

(***************************************************************************)
(* scrollPage, part_000 lines 178-206: the script page.evaluate runs in    *)
(* the page.  Time is the page's clock in ms, 0 when the script starts;    *)
(* a timer fires at the time it was set for, the earliest first.           *)
(***************************************************************************)
\* Line 181.
scrollInterval == 200

\* Line 183.
bottomThreshold == 400

\* Line 182: what the step leaves of the window's height.
scrollStepMargin == 400

\* Line 195: the delay of resolve.
resolveDelay == 500

\* Line 202: the delay of reject.
ScrollTimeout == 30000

Max(a, b) == IF a >= b THEN a ELSE b

Min(a, b) == IF a <= b THEN a ELSE b

DigitValue(c) ==
  CASE c = "0" -> 0 [] c = "1" -> 1 [] c = "2" -> 2 [] c = "3" -> 3 [] c = "4" -> 4
    [] c = "5" -> 5 [] c = "6" -> 6 [] c = "7" -> 7 [] c = "8" -> 8 [] c = "9" -> 9

RECURSIVE ToNumber(_)
\* The number a run of digits denotes.
ToNumber(digits) ==
  IF digits = <<>> THEN 0
  ELSE 10 * ToNumber(SubSeq(digits, 1, Len(digits) - 1)) + DigitValue(digits[Len(digits)])

\* window.innerHeight: the height page.setViewport was given, line 157.
innerHeight(o) == IF isNumber(o["viewport.height"]) THEN ToNumber(o["viewport.height"].v) ELSE 0

\* Line 182.
scrollStep(p) == p.innerHeight - scrollStepMargin

\* Lines 185-187.
bottomPos(p) == p.pageYOffset + p.innerHeight

\* window.scrollBy(0, dy): the offset stays within the document.
scrollBy(p, dy) ==
  [p EXCEPT !.pageYOffset = Max(0, Min(@ + dy, p.scrollHeight - p.innerHeight))]

\* setTimeout(fn, delay) at the time of p.
setTimeout(p, fn, delay) == [p EXCEPT !.timers = @ \cup {[at |-> p.clock + delay, fn |-> fn]}]

\* scrollDown without the return of line 196: the next step is scheduled
\* after the last one too.
scrollDown_noReturn(p) ==
  LET q == [scrollBy(p, scrollStep(p)) EXCEPT !.steps = @ + 1]
  IN IF q.scrollHeight - bottomPos(q) < bottomThreshold
       THEN setTimeout(setTimeout([q EXCEPT !.pageYOffset = 0], "resolve", resolveDelay),
                       "scrollDown", scrollInterval)
       ELSE setTimeout(q, "scrollDown", scrollInterval)

\* Lines 190-200.
scrollDown(p) ==
  LET q == [scrollBy(p, scrollStep(p)) EXCEPT !.steps = @ + 1]
  IN IF q.scrollHeight - bottomPos(q) < bottomThreshold
       THEN setTimeout([q EXCEPT !.pageYOffset = 0], "resolve", resolveDelay)
       ELSE setTimeout(q, "scrollDown", scrollInterval)

\* settle that lets a later call win: the promise takes the last outcome.
settle_lastWins(p, outcome) == [p EXCEPT !.promise = outcome]

\* resolve() and reject() of line 189: the first call settles the promise,
\* and a later call does nothing.
settle(p, outcome) == IF p.promise = "pending" THEN [p EXCEPT !.promise = outcome] ELSE p

\* The document between two scroll steps: it grows if it is one that does.
lazyLoad(p) ==
  IF p.doc.endless \/ p.steps <= p.doc.growSteps
    THEN [p EXCEPT !.scrollHeight = @ + p.doc.grow]
    ELSE p

\* ScrollPage without the timer of line 202.
ScrollPage_noCeiling(r, doc) ==
  /\ pc[r] = "scrollPage"
  /\ calls' = [calls EXCEPT ![r] = Append(@, Call("scrollPage", Undefined))]
  /\ page' = [page EXCEPT ![r] =
                scrollDown([NoPage EXCEPT !.innerHeight = innerHeight(ropts[r]),
                                          !.doc = doc,
                                          !.scrollHeight = doc.height,
                                          !.promise = "pending"])]
  /\ pc' = [pc EXCEPT ![r] = "scrolling"]
  /\ UNCHANGED <<err, httpVars, renderCalls, ropts, browser, data>>

\* Lines 169 and 180-203: page.evaluate is called, and the script runs in
\* the loaded document doc up to the end of the first scrollDown().
ScrollPage(r, doc) ==
  /\ pc[r] = "scrollPage"
  /\ calls' = [calls EXCEPT ![r] = Append(@, Call("scrollPage", Undefined))]
  /\ page' = [page EXCEPT ![r] =
                scrollDown(setTimeout([NoPage EXCEPT !.innerHeight = innerHeight(ropts[r]),
                                                     !.doc = doc,
                                                     !.scrollHeight = doc.height,
                                                     !.promise = "pending"],
                                      "reject", ScrollTimeout))]
  /\ pc' = [pc EXCEPT ![r] = "scrolling"]
  /\ UNCHANGED <<err, httpVars, renderCalls, ropts, browser, data>>

\* The next timer of the page fires, as long as the browser runs: scrollDown
\* (line 199), resolve (line 195) or reject (line 202).
ScrollTimer(r) ==
  /\ browser[r].launched > browser[r].closeCalls
  /\ \E t \in page[r].timers :
       /\ \A u \in page[r].timers : t.at <= u.at
       /\ t.at <= MaxClock
       /\ LET p == [page[r] EXCEPT !.clock = t.at, !.timers = @ \ {t}]
          IN page' = [page EXCEPT ![r] =
                        CASE t.fn = "scrollDown" -> scrollDown(lazyLoad(p))
                          [] t.fn = "resolve" -> settle(p, "resolved")
                          [] t.fn = "reject" -> settle(p, "rejected")]
  /\ UNCHANGED <<pc, err, httpVars, renderCalls, ropts, browser, calls, data>>

\* Line 169: the promise of the script is settled, and the await of
\* scrollPage(page) returns or throws.
ScrollSettled(r) ==
  /\ pc[r] = "scrolling"
  /\ page[r].promise \in {"resolved", "rejected"}
  /\ IF page[r].promise = "resolved"
       THEN /\ pc' = [pc EXCEPT ![r] = "pdf"]
            /\ err' = err
       ELSE /\ pc' = [pc EXCEPT ![r] = "rejected"]
            /\ err' = [err EXCEPT ![r] = PlainError("scrollPage")]
  /\ UNCHANGED <<httpVars, renderVars>>

\* Line 172.
Pdf(r) ==
  /\ AwaitCall(r, "pdf", Call("pdf", ropts[r]["pdf.format"]), "close")
  /\ \E bytes \in PdfBytes :
       data' = [data EXCEPT ![r] = IF pc'[r] = "close" THEN bytes ELSE @]
  /\ UNCHANGED <<httpVars, renderCalls, ropts, browser, page>>

\* Lines 173-175: browser.close() is called here and nowhere else.
Close(r) ==
  /\ pc[r] = "close"
  /\ browser' = [browser EXCEPT ![r] = [@ EXCEPT !.closeCalls = @ + 1]]
  /\ \E ok \in BOOLEAN :
       IF ok
         THEN /\ pc' = [pc EXCEPT ![r] = "rendered"]
              /\ err' = err
         ELSE /\ pc' = [pc EXCEPT ![r] = "rejected"]
              /\ err' = [err EXCEPT ![r] = PlainError("close")]
  /\ UNCHANGED <<httpVars, renderCalls, ropts, calls, data, page>>

\* getRender lines 56-62, postRender lines 90-96: the then-callback.
SendPdf(r) ==
  /\ pc[r] = "rendered"
  /\ res' = [res EXCEPT ![r] =
               [@ EXCEPT !.sent = @ + 1, !.status = 200,
                         !.attachment = IF Truthy(opts[r]["attachmentName"])
                                          THEN opts[r]["attachmentName"] ELSE @,
                         !.contentType = "application/pdf",
                         !.body = data[r]]]
  /\ pc' = [pc EXCEPT ![r] = "done"]
  /\ UNCHANGED <<req, opts, resolverCalls, existingPdfUrl, head, err, renderVars>>

\* ex.createRoute: the handler's promise is rejected, and the error goes to
\* the error-handling middleware, which answers with the error's status, or
\* 500 when it carries none.
RouteError(r) ==
  /\ pc[r] = "rejected"
  /\ res' = [res EXCEPT ![r] =
               [@ EXCEPT !.sent = @ + 1,
                         !.status = IF err[r].status # 0 THEN err[r].status ELSE 500,
                         !.message = err[r].message]]
  /\ pc' = [pc EXCEPT ![r] = "done"]
  /\ UNCHANGED <<req, opts, resolverCalls, existingPdfUrl, head, err, renderVars>>

\* What the handling of request r can do next, when requests come with
\* these queries and JSON bodies and pages load these documents.
Step(r, queries, bodies, documents) ==
  \/ /\ pc[r] = "idle"
     /\ \E query \in queries : GetRender(r, query)
  \/ /\ pc[r] = "idle"
     /\ \E json \in bodies :
          PostRender(r, "application/json", NoRequest.query, json, Undefined)
  \/ /\ pc[r] = "idle"
     /\ \E contentType \in ContentTypeHeaders \ {"application/json"}, query \in queries :
          PostRender(r, contentType, query, EmptyObj, Markup)
  \/ \E contentType \in HeadContentTypes : HeadResponse(r, contentType)
  \/ HeadFailure(r)
  \/ Redirect(r)
  \/ Render(r)
  \/ Launch(r)
  \/ NewPage(r)
  \/ SetViewport(r)
  \/ EmulateMedia(r)
  \/ WaitFor(r)
  \/ Goto(r)
  \/ \E doc \in documents : ScrollPage(r, doc)
  \/ ScrollTimer(r)
  \/ ScrollSettled(r)
  \/ Pdf(r)
  \/ Close(r)
  \/ SendPdf(r)
  \/ RouteError(r)

\* One request, with every input of the model.
Next == Step("r1", Queries, JsonBodies, Documents)

Spec == Init /\ [][Next]_vars

\* The requests that run concurrently: a GET without options and a POST
\* with every option, for a URL that is probed, and pages that stay short.
ConcurrentQueries == {MkQuery(LeafUrl, o) : o \in {o \in FewOptions : o.waitFor = Undefined}}

ConcurrentBodies ==
  {MkBody(LeafUrl, Undefined, [o EXCEPT !.scrollPage = JsTrue], "emulateMedia") :
     o \in {o \in FewOptions : o.waitFor # Undefined}}

ConcurrentDocuments == {doc \in Documents : doc.grow = 0}

\* Every request in flight, in any interleaving: the handlers are async
\* functions, and one runs while the others wait at an await.
NextConcurrent ==
  \E r \in Reqs : Step(r, ConcurrentQueries, ConcurrentBodies, ConcurrentDocuments)

SpecConcurrent == Init /\ [][NextConcurrent]_vars

\* What render waits for comes about: a call on the browser or the page
\* returns or fails, a timer of the page that is due fires, and a settled
\* promise is passed on.
RenderProgress(r) ==
  /\ WF_vars(Launch(r)) /\ WF_vars(NewPage(r)) /\ WF_vars(SetViewport(r))
  /\ WF_vars(EmulateMedia(r)) /\ WF_vars(WaitFor(r)) /\ WF_vars(Goto(r))
  /\ WF_vars(\E doc \in Documents : ScrollPage(r, doc))
  /\ WF_vars(ScrollTimer(r)) /\ WF_vars(ScrollSettled(r))
  /\ WF_vars(Pdf(r)) /\ WF_vars(Close(r))

\* One request for a URL that is probed, with every mix of options that
\* bears on render and every document.
NextRendered ==
  Step("r1", LeafQueries \cup ConcurrentQueries, LeafBodies \cup ConcurrentBodies, Documents)

\* The same with every collaborator of render answering in the end.
FairSpec == Init /\ [][NextRendered]_vars /\ RenderProgress("r1")

(***************************************************************************)
(* Properties.                                                             *)
(***************************************************************************)
\* The call of render made for request r has completed: it returned its data
\* or threw.
RenderCompleted(r) == renderCalls[r] = 1 /\ pc[r] \in {"rendered", "rejected", "done"}

\* The steps claim C1 names as the places where a render call may fail.
C1_FailingSteps == {"setViewport", "emulateMedia", "waitFor", "goto", "scrollPage", "pdf"}

\* C1: for every call of render, by the time the call completes, whether it
\* returns the PDF or fails at setViewport, emulateMedia, waitFor, goto, the
\* scroll-trigger or the PDF export, browser.close() has been called exactly
\* once on the session the call launched.
C1_SessionClosedExactlyOnce ==
  \A r \in Reqs :
    (/\ RenderCompleted(r)
     /\ browser[r].launched = 1
     /\ (err[r].thrown => err[r].message \in C1_FailingSteps))
      => browser[r].closeCalls = 1

\* What does hold of the code: close is called at most once, and exactly once
\* by the time render returns its data.
C1_ClosedOnSuccessOnly ==
  \A r \in Reqs :
    /\ browser[r].closeCalls <= 1
    /\ pc[r] \in {"rendered"} => browser[r].closeCalls = 1
    /\ (RenderCompleted(r) /\ err[r].thrown /\ err[r].message \in C1_FailingSteps)
         => browser[r].closeCalls = 0

\* C2: for every GET and every valid POST request: once the resolver has
\* returned a URL, render is never called, and the response is a redirect to
\* exactly that URL; once it has returned null, render is called exactly once,
\* and when render has returned, the response is 200, application/pdf, with
\* the bytes render returned as its body.
C2_RedirectOrRender ==
  \A r \in Reqs :
    /\ isString(existingPdfUrl[r]) =>
         /\ renderCalls[r] = 0
         /\ pc[r] \in {"resolved", "done"}
         /\ pc[r] = "done" =>
              /\ res[r].sent = 1
              /\ res[r].status = 302
              /\ res[r].location = existingPdfUrl[r]
              /\ res[r].body = Undefined
    /\ (existingPdfUrl[r] = Null /\ pc[r] # "resolved") =>
         /\ renderCalls[r] = 1
         /\ res[r].location = Undefined
         /\ (pc[r] = "done" /\ ~err[r].thrown) =>
              /\ res[r].sent = 1
              /\ res[r].status = 200
              /\ res[r].contentType = "application/pdf"
              /\ data[r] \in PdfBytes
              /\ res[r].body = data[r]
    /\ renderCalls[r] <= 1
    /\ renderCalls[r] = 1 => existingPdfUrl[r] = Null

\* C2 happens: a request whose resolver returned null has been answered with
\* the rendered PDF.
C2_Witness ==
  \E r \in Reqs :
    /\ pc[r] = "done"
    /\ existingPdfUrl[r] = Null
    /\ res[r].status = 200
    /\ res[r].body \in PdfBytes

\* C3: the request is a POST that fails the validation as the claim states it:
\* (a) application/json with neither a string url nor a string html in the
\* body, (b) another content type with a string url query parameter.
C3_FailsA(r) ==
  /\ req[r].method = "POST"
  /\ req[r].contentType = "application/json"
  /\ req[r].json["url"].t # "string"
  /\ req[r].json["html"].t # "string"

C3_FailsB(r) ==
  /\ req[r].method = "POST"
  /\ req[r].contentType # "application/json"
  /\ req[r].query["url"].t = "string"

\* C3: a POST request that fails validation is answered with 400 and the
\* documented message, and neither the resolver (nor its HEAD request) nor
\* render is invoked for it.
C3_ValidationRejects ==
  \A r \in Reqs :
    (C3_FailsA(r) \/ C3_FailsB(r)) =>
      /\ resolverCalls[r] = 0
      /\ head[r].requests = 0
      /\ renderCalls[r] = 0
      /\ browser[r].launched = 0
      /\ pc[r] \in {"rejected", "done"}
      /\ err[r].status = 400
      /\ err[r].message = IF C3_FailsA(r)
                            THEN "Body must contain url or html"
                            ELSE "url query parameter is not allowed when body is HTML"
      /\ pc[r] = "done" =>
           /\ res[r].sent = 1
           /\ res[r].status = 400
           /\ res[r].message = err[r].message
           /\ res[r].body = Undefined
           /\ res[r].location = Undefined

\* C3 happens: an HTML body sent with a url query parameter has been answered
\* with 400.
C3_Witness ==
  \E r \in Reqs :
    /\ C3_FailsB(r)
    /\ pc[r] = "done"
    /\ res[r].status = 400

\* C4: the request is a valid POST that carries only HTML: a body that is not
\* JSON and no url query parameter, or a JSON body with a string html and no
\* url.
C4_HtmlOnly(r) ==
  /\ req[r].method = "POST"
  /\ \/ /\ req[r].contentType # "application/json"
        /\ req[r].query["url"] = Undefined
        /\ isString(req[r].raw)
     \/ /\ req[r].contentType = "application/json"
        /\ isString(req[r].json["html"])
        /\ req[r].json["url"] = Undefined

C4_Markup(r) ==
  IF req[r].contentType = "application/json" THEN req[r].json["html"] ELSE req[r].raw

\* C4: a valid POST request that carries only HTML reaches render: by the time
\* its handler has finished, render has been called with opts.html equal to
\* the markup, and the page was loaded with that markup as inline content,
\* not by navigating to opts.url.
C4_HtmlReachesRender ==
  \A r \in Reqs :
    (C4_HtmlOnly(r) /\ pc[r] = "done") =>
      /\ renderCalls[r] = 1
      /\ ropts[r]["html"] = C4_Markup(r)
      /\ \A i \in 1..Len(calls[r]) : calls[r][i].op # "goto"
      /\ \E i \in 1..Len(calls[r]) : calls[r][i].arg = C4_Markup(r)

\* A leaf of opts is populated: neither absent nor null.
Populated(x) == x \notin {Undefined, Null}

\* C5: whenever render has been called for a request, exactly one of opts.url
\* and opts.html is populated.
C5_ExactlyOneOfUrlHtml ==
  \A r \in Reqs :
    renderCalls[r] >= 1 => (Populated(ropts[r]["url"]) # Populated(ropts[r]["html"]))

(***************************************************************************)
(* The parts of the URLs of the model, as they were put together: the      *)
(* properties of the resolver are stated on these, not on what the code's  *)
(* parser makes of the string.                                              *)
(***************************************************************************)
\* The ways to cut raw into a scheme, a host, a path and a suffix of the model:
\* there is one for a URL of the model, and none for any other string.
UrlSplits(raw) ==
  {t \in UrlSchemes \X UrlHosts \X UrlSuffixes :
     /\ StartsWith(raw, t[1] \o t[2])
     /\ EndsWith(raw, t[3])
     /\ Len(raw) >= Len(t[1]) + Len(t[2]) + Len(t[3])
     /\ SubSeq(raw, Len(t[1]) + Len(t[2]) + 1, Len(raw) - Len(t[3])) \in UrlPaths}

\* The resolver has been called for request r with a well-formed URL.
ResolverRanOnUrl(r) ==
  /\ resolverCalls[r] = 1
  /\ isString(opts[r]["url"])
  /\ UrlSplits(opts[r]["url"].v) # {}

PartsOf(r) ==
  LET raw == opts[r]["url"].v
      t == CHOOSE t \in UrlSplits(raw) : TRUE
  IN [scheme |-> t[1], host |-> t[2], suffix |-> t[3], raw |-> raw,
      path |-> SubSeq(raw, Len(t[1]) + Len(t[2]) + 1, Len(raw) - Len(t[3]))]

\* The hostname and the path of a URL: host names are case-insensitive, and
\* the path of a URL without one is "/".
HostnameOf(t) == ToLowerCase(t.host)

PathOf(t) == IF t.path = <<>> THEN <<"/">> ELSE t.path

\* s is digits-dot-digits.
IsId(s) ==
  \E k \in 2..(Len(s) - 1) :
    /\ s[k] = "."
    /\ \A i \in 1..Len(s) : i # k => s[i] \in Digits

\* The resolver has returned for request r without having issued a HEAD request.
ReturnedWithoutHead(r) ==
  /\ pc[r] \in {"resolved", "done"}
  /\ isString(existingPdfUrl[r])
  /\ head[r].requests = 0

\* C6: the resolver returns the URL unchanged, without a HEAD request, for
\* every URL whose path ends with ".pdf", and the extension check accepts no
\* URL whose path does not end with ".pdf".
C6_ExtensionCheckOnPath ==
  \A r \in Reqs :
    ResolverRanOnUrl(r) =>
      LET t == PartsOf(r)
      IN /\ EndsWith(PathOf(t), sPdfExt) =>
              (ReturnedWithoutHead(r) /\ existingPdfUrl[r] = opts[r]["url"])
         /\ ~EndsWith(PathOf(t), sPdfExt) => ~isPDFPattern(t.raw)

\* What the code does: the check is on the whole string, query and fragment
\* included.
C6_ExtensionCheckOnString ==
  \A r \in Reqs :
    ResolverRanOnUrl(r) =>
      LET t == PartsOf(r)
      IN /\ EndsWith(t.raw, sPdfExt) =>
              (ReturnedWithoutHead(r) /\ existingPdfUrl[r] = opts[r]["url"])
         /\ ~EndsWith(t.raw, sPdfExt) => ~isPDFPattern(t.raw)

\* The path is /abs/<id> or /pdf/<id>, <id> digits-dot-digits and nothing after.
IsArxivPath(path) ==
  /\ StartsWith(path, sAbs) \/ StartsWith(path, sPdfSlash)
  /\ IsId(Drop(path, Len(sAbs)))

\* The longest digits-dot-digits text that follows /abs/ or /pdf/ at the start
\* of the path; <<>> when the path does not begin that way.
LeadingArxivId(path) ==
  LET ends == {n \in (Len(sAbs) + 1)..Len(path) : IsId(SubSeq(path, Len(sAbs) + 1, n))}
  IN IF (StartsWith(path, sAbs) \/ StartsWith(path, sPdfSlash)) /\ ends # {}
       THEN SubSeq(path, Len(sAbs) + 1, CHOOSE n \in ends : \A m \in ends : m <= n)
       ELSE <<>>

\* The resolver has rewritten the URL of request r to an ArXiv PDF URL.
RewrittenToArxiv(r) ==
  /\ ReturnedWithoutHead(r)
  /\ StartsWith(existingPdfUrl[r].v, sArxivPdfPrefix)

\* The URL of request r went past the ArXiv entry: to the OpenReview entry, or
\* on to the HEAD request.
FellThroughArxiv(r, t) ==
  /\ ~RewrittenToArxiv(r)
  /\ \/ head[r].requests = 1
     \/ HostnameOf(t) = sOpenReviewHost /\ PathOf(t) \in {sForum, sPdf}

\* C7: for every URL not accepted by the extension check whose hostname is
\* arxiv.org and whose path is /abs/<id> or /pdf/<id>, the resolver returns
\* https://arxiv.org/pdf/<id> without a HEAD request; a URL on another
\* hostname, or on arxiv.org with a path of another shape, is not rewritten
\* and falls through to the next check.
C7_ArxivExactPath ==
  \A r \in Reqs :
    (ResolverRanOnUrl(r) /\ ~isPDFPattern(opts[r]["url"].v)) =>
      LET t == PartsOf(r)
      IN IF HostnameOf(t) = sArxivHost /\ IsArxivPath(PathOf(t))
           THEN /\ ReturnedWithoutHead(r)
                /\ existingPdfUrl[r].v = sArxivPdfPrefix \o Drop(PathOf(t), Len(sAbs))
           ELSE FellThroughArxiv(r, t)

\* C7, amended: the path need only begin with /abs/<id> or /pdf/<id>, and what
\* follows the id is dropped.
C7_ArxivPathPrefix ==
  \A r \in Reqs :
    (ResolverRanOnUrl(r) /\ ~isPDFPattern(opts[r]["url"].v)) =>
      LET t == PartsOf(r)
          id == LeadingArxivId(PathOf(t))
      IN IF HostnameOf(t) = sArxivHost /\ id # <<>>
           THEN /\ ReturnedWithoutHead(r)
                /\ existingPdfUrl[r].v = sArxivPdfPrefix \o id
           ELSE FellThroughArxiv(r, t)

\* C7 happens: an arxiv.org URL whose path goes on after the id, and which
\* has a query string, has been rewritten.
C7_Witness ==
  \E r \in Reqs :
    /\ ResolverRanOnUrl(r)
    /\ RewrittenToArxiv(r)
    /\ HostnameOf(PartsOf(r)) = sArxivHost
    /\ ~IsArxivPath(PathOf(PartsOf(r)))
    /\ PartsOf(r).suffix # <<>>

\* C8: for every URL not accepted by the extension check whose hostname is
\* openreview.net: when its path is exactly /forum or /pdf, the resolver
\* returns, without a HEAD request, the same URL (scheme, host, query and
\* fragment as given, the host in lower case) with the path /pdf; any other
\* path goes on to the HEAD request.
C8_OpenReviewRewrite ==
  \A r \in Reqs :
    (/\ ResolverRanOnUrl(r)
     /\ ~isPDFPattern(opts[r]["url"].v)
     /\ HostnameOf(PartsOf(r)) = sOpenReviewHost) =>
      LET t == PartsOf(r)
      IN IF PathOf(t) \in {sForum, sPdf}
           THEN /\ ReturnedWithoutHead(r)
                /\ existingPdfUrl[r].v = t.scheme \o HostnameOf(t) \o sPdf \o t.suffix
           ELSE /\ head[r].requests = 1
                /\ pc[r] # "fetch" => ~ReturnedWithoutHead(r)

\* C8 happens: an openreview.net/forum URL with a query string has been
\* rewritten.
C8_Witness ==
  \E r \in Reqs :
    /\ ResolverRanOnUrl(r)
    /\ HostnameOf(PartsOf(r)) = sOpenReviewHost
    /\ PathOf(PartsOf(r)) = sForum
    /\ PartsOf(r).suffix # <<>>
    /\ ReturnedWithoutHead(r)
    /\ existingPdfUrl[r] # opts[r]["url"]

\* Neither the extension check nor a known-site entry matches the URL.
NothingMatched(t) ==
  /\ ~EndsWith(t.raw, sPdfExt)
  /\ ~(HostnameOf(t) = sArxivHost /\ LeadingArxivId(PathOf(t)) # <<>>)
  /\ ~(HostnameOf(t) = sOpenReviewHost /\ PathOf(t) \in {sForum, sPdf})

\* C9: when neither the extension check nor a known-site entry matched, the
\* resolver issues exactly one HEAD request, and for every response, whatever
\* its headers, returns the URL unchanged if the content-type ends with "pdf"
\* in any letter case, and null otherwise.
C9_ProbeDecides ==
  \A r \in Reqs :
    (ResolverRanOnUrl(r) /\ NothingMatched(PartsOf(r))) =>
      /\ head[r].requests = 1
      /\ head[r].outcome = "responded" =>
           existingPdfUrl[r] =
             IF /\ isString(head[r].contentType)
                /\ EndsWith(ToLowerCase(head[r].contentType.v), spdf)
               THEN opts[r]["url"]
               ELSE Null

\* What does hold: the same for every response that carries a content-type.
C9_ProbeDecidesGivenHeader ==
  \A r \in Reqs :
    (ResolverRanOnUrl(r) /\ NothingMatched(PartsOf(r))) =>
      /\ head[r].requests = 1
      /\ (head[r].outcome = "responded" /\ isString(head[r].contentType)) =>
           existingPdfUrl[r] =
             IF EndsWith(ToLowerCase(head[r].contentType.v), spdf)
               THEN opts[r]["url"]
               ELSE Null

\* C10: if the HEAD request fails, the resolver fails: it returns nothing,
\* null included; render is never called and no browser is launched for the
\* request, which ends with an error response.
C10_ProbeFailureFailsRequest ==
  \A r \in Reqs :
    head[r].outcome = "failed" =>
      /\ existingPdfUrl[r] = Undefined
      /\ err[r].thrown
      /\ pc[r] \in {"rejected", "done"}
      /\ renderCalls[r] = 0
      /\ browser[r].launched = 0
      /\ calls[r] = <<>>
      /\ pc[r] = "done" =>
           /\ res[r].sent = 1
           /\ res[r].status = 500
           /\ res[r].location = Undefined
           /\ res[r].body = Undefined

\* C10 happens: a request whose HEAD request failed has been answered.
C10_Witness ==
  \E r \in Reqs :
    /\ head[r].outcome = "failed"
    /\ pc[r] = "done"

(***************************************************************************)
(* C11: the merged configuration of render.                                *)
(***************************************************************************)
\* The documented defaults, leaf by leaf.
DocumentedDefaults ==
  [scrollPage |-> JsFalse, emulateScreenMedia |-> JsFalse] @@
  ("viewport.width" :> JsNumber(<<"1", "6", "0", "0">>)) @@
  ("viewport.height" :> JsNumber(<<"1", "2", "0", "0">>)) @@
  ("goto.waitUntil" :> JsString(<<"n", "e", "t", "w", "o", "r", "k", "i", "d", "l", "e">>)) @@
  ("goto.networkIdleTimeout" :> JsNumber(<<"2", "0", "0", "0">>)) @@
  ("pdf.format" :> JsString(<<"A", "4">>)) @@
  ("pdf.printBackground" :> JsTrue)

\* The leaf k of the configuration render works with is the leaf of given
\* when that is specified, and otherwise the default, if defaults has one.
MergedLeaf(defaults, given, k) ==
  IF given[k] = Undefined /\ k \in DOMAIN defaults THEN defaults[k] ELSE given[k]

\* C11: for every options object render is called with, each leaf with a
\* documented default (scrollPage, emulateScreenMedia, viewport.width,
\* viewport.height, goto.waitUntil, goto.networkIdleTimeout, pdf.format,
\* pdf.printBackground) has the default when the object leaves it absent or
\* undefined and the given value otherwise, false and 0 included; a leaf
\* without a default keeps the given value.
C11_MergedConfig ==
  \A r \in Reqs :
    renderCalls[r] > 0 =>
      \A k \in OptKeys : ropts[r][k] = MergedLeaf(DocumentedDefaults, opts[r], k)

\* What does hold: the same for every leaf but the two media leaves.  The
\* default false is under emulateMedia, and emulateScreenMedia has none.
C11_MergedConfigButMedia ==
  \A r \in Reqs :
    renderCalls[r] > 0 =>
      /\ \A k \in OptKeys \ {"emulateMedia", "emulateScreenMedia"} :
           ropts[r][k] = MergedLeaf(DocumentedDefaults, opts[r], k)
      /\ ropts[r]["emulateScreenMedia"] = opts[r]["emulateScreenMedia"]
      /\ ropts[r]["emulateMedia"] =
           IF opts[r]["emulateMedia"] = Undefined THEN JsFalse ELSE opts[r]["emulateMedia"]

\* A leaf given as false or 0 has reached render, next to an absent one.
C11_Witness ==
  \E r \in Reqs :
    /\ renderCalls[r] > 0
    /\ opts[r]["viewport.width"] = JsNumber(<<"0">>)
    /\ opts[r]["pdf.printBackground"] = JsFalse
    /\ opts[r]["scrollPage"] = Undefined

(***************************************************************************)
(* C12 and C13: the calls render makes on the page.                        *)
(***************************************************************************)
\* The positions in the calls of request r at which op is called.
CallsOf(r, op) == {i \in 1..Len(calls[r]) : calls[r][i].op = op}

sScreen == JsString(<<"s", "c", "r", "e", "e", "n">>)

\* With the flag set, emulateMedia('screen') is called before every goto;
\* with the flag false or absent, emulateMedia is never called.
MediaFollows(r, flag) ==
  /\ flag = JsTrue =>
       \A g \in CallsOf(r, "goto") :
         \E e \in CallsOf(r, "emulateMedia") : e < g /\ calls[r][e].arg = sScreen
  /\ flag \in {JsFalse, Undefined} => CallsOf(r, "emulateMedia") = {}

\* C12: in every render call whose options have emulateScreenMedia true,
\* from getOptsFromQuery or from a JSON body, emulateMedia('screen') is
\* called before goto; when emulateScreenMedia is false or absent,
\* emulateMedia is never called.
C12_ScreenMediaEmulated ==
  \A r \in Reqs : renderCalls[r] > 0 => MediaFollows(r, opts[r]["emulateScreenMedia"])

\* What does hold: the same of the leaf emulateMedia, which only a JSON body
\* can give.
C12_MediaEmulated ==
  \A r \in Reqs : renderCalls[r] > 0 => MediaFollows(r, opts[r]["emulateMedia"])

\* A GET request with emulateScreenMedia true has got as far as goto.
C12_Witness ==
  \E r \in Reqs :
    /\ req[r].method = "GET"
    /\ opts[r]["emulateScreenMedia"] = JsTrue
    /\ CallsOf(r, "goto") # {}

\* The place of a call in the order of render.
Rank(op) ==
  CASE op = "newPage" -> 1 [] op = "setViewport" -> 2 [] op = "emulateMedia" -> 3
    [] op = "waitFor" -> 4 [] op = "goto" -> 5 [] op = "scrollPage" -> 6 [] op = "pdf" -> 7

PageOps == {"newPage", "setViewport", "emulateMedia", "waitFor", "goto", "scrollPage", "pdf"}

\* C13: render calls its collaborators strictly in the order launch and
\* newPage, setViewport, emulateMedia if any, waitFor if any, goto, the
\* scrolling if any, pdf, each at most once and each after the one before has
\* completed: waitFor, made exactly when opts.waitFor is a number or a
\* string, comes before goto, goto before the scrolling, and the scrolling
\* has completed when pdf is called.  A call that fails is the last one, so
\* pdf is never called when goto or the scrolling failed.
C13_CallOrder ==
  \A r \in Reqs :
    /\ \A i, j \in 1..Len(calls[r]) : i < j => Rank(calls[r][i].op) < Rank(calls[r][j].op)
    /\ calls[r] # <<>> => browser[r].launched = 1 /\ renderCalls[r] = 1
    /\ \A i \in 1..Len(calls[r]) :
         /\ i <= 2 => Rank(calls[r][i].op) = i
         /\ calls[r][i].op \in {"scrollPage", "pdf"} => CallsOf(r, "goto") # {}
    /\ CallsOf(r, "goto") # {} =>
         (CallsOf(r, "waitFor") # {} <=>
            (isNumber(opts[r]["waitFor"]) \/ isString(opts[r]["waitFor"])))
    /\ CallsOf(r, "pdf") # {} =>
         /\ CallsOf(r, "scrollPage") # {} <=> Truthy(opts[r]["scrollPage"])
         /\ CallsOf(r, "scrollPage") # {} => page[r].promise = "resolved"
    /\ (err[r].thrown /\ err[r].message \in PageOps) =>
         /\ calls[r] # <<>>
         /\ calls[r][Len(calls[r])].op = err[r].message
    /\ (err[r].thrown /\ err[r].message \in {"goto", "scrollPage"}) => CallsOf(r, "pdf") = {}

\* Every call of the order has been made for one request.
C13_Witness == \E r \in Reqs : Len(calls[r]) = 7

\* The scrolling of a request has failed.
C13_WitnessFailure ==
  \E r \in Reqs : err[r].thrown /\ err[r].message = "scrollPage"

(***************************************************************************)
(* C14 and C15: the scrolling.                                             *)
(***************************************************************************)
\* The functions the timers of page p are set for.
Pending(p, fn) == {t \in p.timers : t.fn = fn}

\* Where a scroll step takes a page at offset y whose state after it is q.
ScrolledTo(y, q) ==
  LET to == y + q.innerHeight - 400
      last == q.scrollHeight - q.innerHeight
  IN IF to > last THEN (IF last > 0 THEN last ELSE 0) ELSE (IF to > 0 THEN to ELSE 0)

\* One step of the scrolling from p to q, as C14 has it.
ScrollStepsAsClaimed(p, q) ==
  /\ q.steps # p.steps =>
       /\ q.steps = p.steps + 1
       /\ p.promise = "none" \/ Pending(p, "scrollDown") # {}
       /\ q.clock = 200 * p.steps
       /\ IF q.scrollHeight - (ScrolledTo(p.pageYOffset, q) + q.innerHeight) < 400
            THEN /\ q.pageYOffset = 0
                 /\ Pending(q, "scrollDown") = {}
                 /\ Pending(q, "resolve") = {[at |-> q.clock + 500, fn |-> "resolve"]}
            ELSE /\ q.pageYOffset = ScrolledTo(p.pageYOffset, q)
                 /\ Pending(q, "scrollDown") = {[at |-> q.clock + 200, fn |-> "scrollDown"]}
                 /\ Pending(q, "resolve") = {}
  /\ (p.promise # "none" /\ Pending(p, "scrollDown") = {}) =>
       /\ Pending(q, "scrollDown") = {}
       /\ q.steps = p.steps
  /\ (q.promise = "resolved" /\ p.promise # "resolved") =>
       q.clock = 200 * (q.steps - 1) + 500
  /\ q.promise = "resolved" => q.pageYOffset = 0

\* C14: the scrolling makes its steps 200 ms apart, the first at once, until
\* the first step after which the bottom of the window is less than 400 px
\* from the bottom of the document; that step puts the scroll position back
\* to 0 and schedules no further step but the completion, 500 ms later; no
\* step is made after it, and whenever scrollPage returns successfully the
\* scroll position is 0.
C14_ScrollSteps ==
  [][\A r \in Reqs :
       /\ ScrollStepsAsClaimed(page[r], page'[r])
       /\ (pc[r] = "scrolling" /\ pc'[r] = "pdf") =>
            page'[r].promise = "resolved" /\ page'[r].pageYOffset = 0]_vars

\* scrollPage has returned successfully after several steps in a document
\* that grew under it.
C14_Witness ==
  \E r \in Reqs :
    /\ pc[r] = "pdf"
    /\ page[r].promise = "resolved"
    /\ page[r].steps > 2
    /\ page[r].scrollHeight > page[r].doc.height

\* The document loaded into page p never meets the stop condition: it grows
\* for ever by a step or more, or the window is too low for a step down.
NeverStops(p) ==
  \/ /\ p.doc.endless
     /\ p.doc.grow >= p.innerHeight - 400
     /\ p.doc.height - (2 * p.innerHeight - 400) >= 400
  \/ /\ p.innerHeight <= 400
     /\ p.doc.height - p.innerHeight >= 400

\* One step of the page from p to q, as C15 has it.
SettlesAsClaimed(p, q) ==
  /\ p.promise \in {"resolved", "rejected"} => q.promise = p.promise
  /\ q.promise = "pending" => Pending(q, "reject") = {[at |-> 30000, fn |-> "reject"]}
  /\ q.clock > 30000 => q.promise # "pending"
  /\ (p.promise = "pending" /\ q.promise = "rejected") => q.clock = 30000
  /\ (p.promise = "pending" /\ q.promise = "resolved") => q.clock < 30000
  /\ (NeverStops(q) /\ q.promise # "pending") => q.promise = "rejected"

\* C15: the promise of the scrolling settles once, as a completion or as a
\* failure and never both.  It fails when the completion has not been
\* signalled 30,000 ms after the start, and render then fails without calling
\* pdf; with a document that never meets the stop condition it always fails,
\* at 30,000 ms.  A completion before that is not turned into a failure when
\* the 30,000 ms timer fires later.
C15_ScrollSettlesOnce ==
  /\ [][\A r \in Reqs : SettlesAsClaimed(page[r], page'[r])]_vars
  /\ [](\A r \in Reqs :
          /\ page[r].promise = "rejected" =>
               /\ CallsOf(r, "pdf") = {}
               /\ pc[r] \in {"scrolling", "rejected", "done"}
               /\ pc[r] # "scrolling" => err[r].thrown /\ err[r].message = "scrollPage"
          /\ (page[r].promise = "resolved" /\ err[r].thrown) => err[r].message # "scrollPage")

\* The scrolling completed and its 30,000 ms timer has fired since.
C15_Witness ==
  \E r \in Reqs :
    /\ page[r].promise = "resolved"
    /\ Pending(page[r], "reject") = {}

\* The scrolling failed at 30,000 ms in a document that never meets the stop
\* condition, and the request has been answered.
C15_WitnessCeiling ==
  \E r \in Reqs :
    /\ page[r].promise = "rejected"
    /\ NeverStops(page[r])
    /\ page[r].innerHeight = 1200
    /\ pc[r] = "done"

\* The scrolling met the stop condition at 29,800 ms, too late to complete.
C15_WitnessLate ==
  \E r \in Reqs :
    /\ page[r].promise = "rejected"
    /\ page[r].steps = 150
    /\ page[r].timers = {}

(***************************************************************************)
(* C16: concurrent requests.                                               *)
(***************************************************************************)
\* The state of request r.
StateOf(r) ==
  <<pc[r], req[r], opts[r], resolverCalls[r], existingPdfUrl[r], head[r], err[r], res[r],
    renderCalls[r], ropts[r], browser[r], calls[r], page[r], data[r]>>

\* No request is in flight.
AllCompleted == \A r \in Reqs : pc[r] \in {"idle", "done"}

\* C16: for any interleaving of concurrent requests, each render call works
\* on its own browser session only, and once every request in flight has
\* completed, the failed ones included, no browser session is left open.
C16_NoSessionLeftOpen ==
  /\ \A r \in Reqs : browser[r].launched <= 1
  /\ AllCompleted => \A r \in Reqs : browser[r].closeCalls = browser[r].launched

\* What does hold: a step of one request changes nothing of another, and
\* when all have completed, each session of a render call that returned its
\* data has been closed.
C16_RequestsIsolated ==
  /\ [][\A r1, r2 \in Reqs : (r1 # r2 /\ StateOf(r1)' # StateOf(r1)) => StateOf(r2)' = StateOf(r2)]_vars
  /\ [](AllCompleted =>
          \A r \in Reqs : res[r].status = 200 => browser[r].closeCalls = browser[r].launched)

\* Two requests ran at the same time and have both completed, one of them
\* with an error after its browser was launched.
C16_Witness ==
  /\ AllCompleted
  /\ \A r \in Reqs : pc[r] = "done"
  /\ \E r \in Reqs : err[r].thrown /\ browser[r].launched = 1
  /\ \E r \in Reqs : res[r].status = 200

(***************************************************************************)
(* C17: termination.                                                       *)
(***************************************************************************)
\* C17: every call of render completes in the end, returning its data or
\* throwing, provided each call on the browser and the page returns or fails
\* in the end; with scrollPage it does not wait for the scrolling for ever.
C17_RenderCompletes ==
  \A r \in Reqs :
    /\ (renderCalls[r] = 1) ~> RenderCompleted(r)
    /\ (pc[r] = "scrolling") ~> (pc[r] # "scrolling")

\* The scrolling of a document that never meets the stop condition has been
\* waited for up to its end.
C17_Witness ==
  \E r \in Reqs :
    /\ RenderCompleted(r)
    /\ CallsOf(r, "scrollPage") # {}
    /\ page[r].doc.endless

(***************************************************************************)
(* C18: the host of the resolver's result.                                 *)
(***************************************************************************)
\* The host names the string s names as a URL, in lower case: one for an
\* absolute URL of the model, none for a string that is no absolute URL.
NamedHosts(s) ==
  {ToLowerCase(h) :
     h \in {h \in UrlHosts :
             \E sc \in UrlSchemes :
               /\ StartsWith(s, sc \o h)
               /\ Len(s) > Len(sc \o h) => s[Len(sc \o h) + 1] \in {"/", "?", "#"}}}

\* C18: every result of the resolver that is not null names the host of the
\* input URL: it is the input itself, "https://arxiv.org/pdf/<id>" for an
\* input on arxiv.org, or the input with the path /pdf for an input on
\* openreview.net.  So the Location of a redirect, which is that result,
\* never names another host than the URL of the request.
C18_SameHost ==
  \A r \in Reqs :
    isString(existingPdfUrl[r]) =>
      LET input == opts[r]["url"].v
          result == existingPdfUrl[r].v
      IN /\ isString(opts[r]["url"])
         /\ NamedHosts(result) = NamedHosts(input)
         /\ \/ result = input
            \/ /\ NamedHosts(input) = {sArxivHost}
               /\ StartsWith(result, sArxivPdfPrefix)
               /\ IsId(Drop(result, Len(sArxivPdfPrefix)))
            \/ /\ NamedHosts(input) = {sOpenReviewHost}
               /\ ResolverRanOnUrl(r)
               /\ result = PartsOf(r).scheme \o sOpenReviewHost \o sPdf \o PartsOf(r).suffix
         /\ res[r].status = 302 =>
              /\ res[r].location = existingPdfUrl[r]
              /\ NamedHosts(res[r].location.v) = NamedHosts(input)

\* A request whose URL writes the host as Arxiv.org has been redirected to
\* the URL the resolver made of it.
C18_Witness ==
  \E r \in Reqs :
    /\ res[r].status = 302
    /\ res[r].location # opts[r]["url"]
    /\ NamedHosts(res[r].location.v) = {sArxivHost}
    /\ opts[r]["url"].v[1] = "h" /\ opts[r]["url"].v[9] = "A"

(***************************************************************************)
(* C19: one outcome for each request.                                      *)
(***************************************************************************)
\* C19: a request handled by getRender or postRender has at most one
\* outcome, and when it is done exactly one: a redirect, a 200 response with
\* the PDF, or an error raised to the route wrapper.  A response is never
\* sent twice, and after a redirect or a validation error no PDF body is
\* sent and render is not called.
C19_OneOutcome ==
  \A r \in Reqs :
    LET redirected == res[r].status = 302
        pdfSent == res[r].status = 200
        raised == err[r].thrown
    IN /\ res[r].sent <= 1
       /\ res[r].sent = 1 => pc[r] = "done"
       /\ pc[r] = "done" => (redirected \/ pdfSent \/ raised)
       /\ ~(redirected /\ raised) /\ ~(pdfSent /\ raised) /\ ~(redirected /\ pdfSent)
       /\ redirected =>
            /\ res[r].sent = 1
            /\ isString(res[r].location)
            /\ res[r].body = Undefined
            /\ renderCalls[r] = 0
       /\ pdfSent =>
            /\ res[r].sent = 1
            /\ res[r].location = Undefined
            /\ res[r].body = data[r]
            /\ data[r] \in PdfBytes
       /\ raised =>
            /\ res[r].location = Undefined
            /\ res[r].body = Undefined
            /\ res[r].contentType = ""
            /\ res[r].attachment = Undefined

\* A request has been redirected, and it is done.
C19_Witness ==
  \E r \in Reqs :
    /\ pc[r] = "done"
    /\ res[r].status = 302
    /\ res[r].sent = 1

\* Under SpecConcurrent: of two concurrent requests one has been redirected
\* and the other one answered with the PDF.
C19_WitnessConcurrent ==
  \E r1, r2 \in Reqs :
    /\ pc[r1] = "done" /\ res[r1].status = 302
    /\ pc[r2] = "done" /\ res[r2].status = 200

====
